---- MODULE Spec2Model ----
(***************************************************************************)
(* Model of CodePilot's Electron main process (the supervisor of the       *)
(* bundled Next.js server) and of the file-preview route handler.          *)
(*                                                                         *)
(* The main process is single-threaded: every event handler and every      *)
(* continuation of an async function runs to its next await without        *)
(* interleaving, so each action below is one such run-to-suspension.       *)
(* An async handler instance is identified by a handler id; a handler      *)
(* spawns at most one child, so a child is named by the id of the handler  *)
(* that spawned it.                                                        *)
(***************************************************************************)
EXTENDS Integers, Sequences, FiniteSets, TLC

(* ---- bounds of the model ---- *)
MaxActivations == 1      \* 'activate' events delivered in one run
MaxCycles == 2           \* retry intervals that fit into waitForServer's deadline
MaxOutput == 1           \* lines the children write in one run
MaxBurst == 11           \* lines a talkative child writes in one run

(* ---- program constants ---- *)
RetryInterval == 200     \* setTimeout(r, 200), in ms
ProbeTimeout == 1000     \* req.setTimeout(1000), in ms
CaptureTimeout == 5000   \* execFileSync's timeout, in ms
Null == 0                \* null (serverProcess, serverPort, a handler's port)
NullCode == -1           \* ChildProcess.exitCode === null
DevPort == 3000
ErrTail == 10            \* serverErrors.slice(-10)
HttpOk == 200

ReadyHandler == 1
ActivateHandlers == 2..(MaxActivations + 1)
Handlers == {ReadyHandler} \cup ActivateHandlers

Ports == {40001, 40002}            \* what the OS may hand out for port 0
ExitCodes == {1}                   \* a crash; a signalled child has exitCode null

\* What one probe of GET /api/health can end with.
ProbeOutcomes ==
    [kind : {"response"}, code : {200, 500}]
        \cup [kind : {"error", "timeout"}, code : {Null}]
NoProbe == [kind |-> "none", code |-> Null]
NoError == [kind |-> "none", lines |-> <<>>]

(* ---- the environment: strings, shell runs, the parent's environment ---- *)

\* A string of the environment is a sequence of chunks; "=" and "\n" are
\* always chunks of their own.
EQ == "="
NL == "\n"

HomeStr == <<"/home/alice">>                     \* os.homedir()
UserDataStr == <<"/home/alice/appdata">>         \* app.getPath('userData')
BasePath == <<"/usr/local/bin:/opt/homebrew/bin:/usr/bin:/bin">>

K_PORT == <<"PORT">>
K_HOSTNAME == <<"HOSTNAME">>
K_DATA_DIR == <<"CLAUDE_GUI_DATA_DIR">>
K_RUN_AS_NODE == <<"ELECTRON_RUN_AS_NODE">>
K_HOME == <<"HOME">>
K_PATH == <<"PATH">>
K_API == <<"API_KEY">>
FixedKeys == {K_PORT, K_HOSTNAME, K_DATA_DIR, K_RUN_AS_NODE, K_HOME, K_PATH}

EmptyEnv == [k \in {} |-> <<>>]

\* What the login shell prints for `env`.
ShellOutputs ==
    { <<>>,
      <<"API_KEY", EQ, "k1", NL, "PATH", EQ, "/shell/bin", NL>>,
      <<"TOKEN", EQ, "a", EQ, "b", NL, "noequals", NL, EQ, "orphan", NL,
        "EMPTY", EQ, NL>>,
      <<"API_KEY", EQ, "k1", NL, "API_KEY", EQ, "k2">>,
      <<"HOME", EQ, "/shell/home", NL, "PORT", EQ, "1", NL, "PATH", EQ>> }

\* What execFileSync(shell, ['-ilc', 'env']) does: returns the output, or
\* throws (the shell cannot be spawned, exits non-zero, or runs into the 5 s
\* timeout).
ShellRuns ==
    [kind : {"ok"}, output : ShellOutputs]
        \cup [kind : {"spawn-error"}, output : {<<>>}]
        \cup [kind : {"exit-code", "timeout"},
              output : {<<>>, <<"API_KEY", EQ, "k1", NL>>}]
DefaultShellRun ==
    [kind |-> "ok",
     output |-> <<"API_KEY", EQ, "k1", NL, "PATH", EQ, "/shell/bin", NL>>]

\* process.env of the main process
ProcessEnvs ==
    { EmptyEnv,
      (K_API :> <<"parent">>) @@ (K_PATH :> <<"/parent/bin">>)
          @@ (<<"LANG">> :> <<"C">>),
      (K_PORT :> <<"9">>) @@ (K_HOME :> <<"/parent/home">>)
          @@ (<<"TOKEN">> :> <<"p">>) }
DefaultProcessEnv == (K_PATH :> <<"/parent/bin">>)

(* ---- the file-preview route: query parameters and paths ---- *)

\* A query parameter: absent (searchParams.get gives null) or a string. A path
\* string is its leading "/" (abs) and its segments; a number string is its
\* characters.
Absent == [present |-> FALSE, abs |-> FALSE, segs |-> <<>>]
Str(abs, segs) == [present |-> TRUE, abs |-> abs, segs |-> segs]
EmptyStr == Str(FALSE, <<>>)

HomeDir == <<"home", "alice">>         \* os.homedir()
Cwd == <<"srv", "app">>                \* process.cwd() of the server

PathParams ==
    { Absent, EmptyStr,
      Str(TRUE, <<"home", "alice", "notes.txt">>),
      Str(TRUE, <<"home", "alice", "proj", "a.ts">>),
      Str(TRUE, <<"home", "alice-2", "x">>),
      Str(TRUE, <<"etc", "passwd">>),
      Str(TRUE, <<"home", "alice", "proj", "..", "..", "..", "etc", "passwd">>),
      Str(TRUE, <<"home", "alice">>),
      Str(FALSE, <<"a.ts">>),
      Str(FALSE, <<"..", "..", "home", "alice", ".", "notes.txt">>) }

BaseDirParams ==
    { Absent, EmptyStr,
      Str(TRUE, <<>>),                              \* "/"
      Str(TRUE, <<"home", "..">>),                  \* "/home/.."
      Str(FALSE, <<"..", "..">>),                   \* "../.."
      Str(TRUE, <<"home", "alice">>),
      Str(TRUE, <<"home", "alice", "proj">>),
      Str(TRUE, <<"etc">>),
      Str(TRUE, <<"srv", "app">>) }

NumAbsent == [present |-> FALSE, chars |-> <<>>]
Num(chars) == [present |-> TRUE, chars |-> chars]
MaxLinesParams ==
    { NumAbsent, Num(<<>>), Num(<<"5", "0", "0", "0">>), Num(<<"1", "0", "0">>),
      Num(<<"a", "b", "c">>), Num(<<"0">>), Num(<<"-", "5">>),
      Num(<<"1", "2", "p", "x">>) }

DefaultMaxLines == <<"2", "0", "0">>   \* '200'
MaxLinesCap == 1000

NaN == [nan |-> TRUE, val |-> 0]
Number(n) == [nan |-> FALSE, val |-> n]

NoRequest == [path |-> Absent, baseDir |-> Absent, maxLines |-> NumAbsent]
NoRead == [called |-> FALSE, path |-> <<>>, limit |-> NaN]

VARIABLES
    platform,       \* process.platform: "darwin" or "other"
    isDev,          \* !app.isPackaged
    appPhase,       \* "launching" (before ready), "running", "quit"
    serverProcess,  \* the handle: Null or the child it refers to
    serverPort,     \* Null or a port
    serverErrors,   \* the diagnostic buffer: the child that wrote each line
    userShellEnv,   \* the snapshot: a mapping from names to values
    shellRun,       \* what running the login shell will do (an input)
    processEnv,     \* process.env (an input)
    childEnv,       \* per child: the environment it was spawned with
    pc,             \* per handler: where its async function is suspended
    port,           \* per handler: its local `port`
    elapsed,        \* per handler: Date.now() - start of its waitForServer
    lastProbe,      \* per handler: outcome of its latest probe
    err,            \* per handler: the error its catch block received
    childSt,        \* per child: "none", "alive", "exited"
    exitCode,       \* per child: ChildProcess.exitCode
    kills,          \* per child: number of kill() calls made on it
    win,            \* per handler: the window it created: "none","open","closed"
    winPort,        \* per handler: port its window was pointed at
    dialogShown,    \* dialog.showErrorBox was called
    lastStop,       \* what the last run of a stop handler did (history)
    \* the file-preview route (it runs in the server process)
    req,            \* the request GET is handling, or NoRequest
    rpc,            \* "idle", "reading" (awaiting readFilePreview), "responded"
    status,         \* HTTP status of the response, Null before it is sent
    readCall        \* the arguments readFilePreview was called with, or NoRead

mainVars == <<platform, isDev, appPhase, serverProcess, serverPort,
              serverErrors, userShellEnv, pc, port, elapsed, lastProbe, err,
              childSt, exitCode, kills, win, winPort, dialogShown, lastStop,
              shellRun, processEnv, childEnv>>
previewVars == <<req, rpc, status, readCall>>
vars == <<mainVars, previewVars>>

InitBase ==
    /\ platform \in {"darwin", "other"}
    /\ isDev \in BOOLEAN
    /\ appPhase = "launching"
    /\ serverProcess = Null
    /\ serverPort = Null
    /\ serverErrors = <<>>
    /\ userShellEnv = EmptyEnv
    /\ childEnv = [h \in Handlers |-> EmptyEnv]
    /\ pc = [h \in Handlers |-> "idle"]
    /\ port = [h \in Handlers |-> Null]
    /\ elapsed = [h \in Handlers |-> 0]
    /\ lastProbe = [h \in Handlers |-> NoProbe]
    /\ err = [h \in Handlers |-> NoError]
    /\ childSt = [h \in Handlers |-> "none"]
    /\ exitCode = [h \in Handlers |-> NullCode]
    /\ kills = [h \in Handlers |-> 0]
    /\ win = [h \in Handlers |-> "none"]
    /\ winPort = [h \in Handlers |-> Null]
    /\ dialogShown = FALSE
    /\ lastStop = "none"
    /\ req = NoRequest
    /\ rpc = "idle"
    /\ status = Null
    /\ readCall = NoRead

\* One launch, with a shell that prints two variables.
Init ==
    /\ InitBase
    /\ shellRun = DefaultShellRun
    /\ processEnv = DefaultProcessEnv

\* Every shell run and parent environment of the sets above.
EnvInit ==
    /\ InitBase
    /\ shellRun \in ShellRuns
    /\ processEnv \in ProcessEnvs

(* ---- helpers ---- *)

Alive(c) == childSt[c] = "alive"

\* The ports are interchangeable: the OS hands out one it handed out before
\* or the lowest one it has not.
UsedPorts == {port[h] : h \in Handlers} \cap Ports
FreshPorts ==
    UsedPorts \cup {q \in Ports : \A r \in Ports \ UsedPorts : q <= r}

AnyWindowOpen == \E h \in Handlers : win[h] = "open"

\* arr.slice(-n)
SliceLast(s, n) ==
    IF Len(s) <= n THEN s ELSE SubSeq(s, Len(s) - n + 1, Len(s))

\* Faulty variant: any HTTP response resolves the probe
IsSuccessAnyResponse(outcome) == outcome.kind = "response"

\* res.statusCode === 200
IsSuccess(outcome) == outcome.kind = "response" /\ outcome.code = HttpOk

\* Faulty variant: the signal is sent but the handle is kept
StopHandleKeepsHandle(sp, k) ==
    IF sp # Null
    THEN [handle |-> sp, kills |-> [k EXCEPT ![sp] = @ + 1], did |-> "signal"]
    ELSE [handle |-> sp, kills |-> k, did |-> "nothing"]

\* if (serverProcess) { serverProcess.kill(); serverProcess = null; }
\* run while the handle is sp and the signals sent so far are k
StopHandle(sp, k) ==
    IF sp # Null
    THEN [handle |-> Null, kills |-> [k EXCEPT ![sp] = @ + 1],
          did |-> "signal"]
    ELSE [handle |-> sp, kills |-> k, did |-> "nothing"]

\* The timeout argument of waitForServer: its default, 30000 ms, scaled down
\* to MaxCycles retry intervals.
WaitTimeout == MaxCycles * RetryInterval

\* How long the main thread is blocked in execFileSync: not at all, or up to
\* its timeout.
CaptureDurations == {0, CaptureTimeout}

\* How long a probe is outstanding: a response or a refused connection on
\* the loopback interface arrives at once, a silent connection is destroyed
\* by the request's timer.
ProbeDuration(outcome) == IF outcome.kind = "timeout" THEN ProbeTimeout ELSE 0

\* waitForServer's loop head, evaluated n ms after the call's start while the
\* handle is sp: what the iteration does.
LoopHead(n, sp) ==
    IF n >= WaitTimeout THEN "timeout"
    ELSE IF sp # Null /\ exitCode[sp] # NullCode THEN "crash"
    ELSE "probe"

\* The Error waitForServer throws.
PollError(kind) ==
    IF kind = "crash" THEN [kind |-> "crash", lines |-> serverErrors]
    ELSE [kind |-> "timeout", lines |-> SliceLast(serverErrors, ErrTail)]

(* ---- loadUserShellEnv and the environment startServer builds ---- *)

\* result.split('\n')
RECURSIVE SplitLines(_, _)
SplitLines(cur, rest) ==
    IF rest = <<>> THEN <<cur>>
    ELSE IF Head(rest) = NL THEN <<cur>> \o SplitLines(<<>>, Tail(rest))
    ELSE SplitLines(Append(cur, Head(rest)), Tail(rest))

\* line.indexOf('='), counted from 0; -1 when there is none
RECURSIVE IndexOfEq(_, _)
IndexOfEq(line, i) ==
    IF i > Len(line) THEN -1
    ELSE IF line[i] = EQ THEN i - 1
    ELSE IndexOfEq(line, i + 1)

\* line.lastIndexOf('='), counted from 0; -1 when there is none
RECURSIVE LastIndexOfEq(_, _)
LastIndexOfEq(line, i) ==
    IF i < 1 THEN -1
    ELSE IF line[i] = EQ THEN i - 1
    ELSE LastIndexOfEq(line, i - 1)

\* Faulty variant: the line is split on its last '='
ParseLineLastEq(env, line) ==
    LET idx == LastIndexOfEq(line, Len(line)) IN
    IF idx > 0
    THEN LET key == SubSeq(line, 1, idx)
             value == SubSeq(line, idx + 2, Len(line))
         IN [k \in DOMAIN env \cup {key} |->
                IF k = key THEN value ELSE env[k]]
    ELSE env

\* The body of the for loop: env[key] = value when idx > 0
ParseLine(env, line) ==
    LET idx == IndexOfEq(line, 1) IN
    IF idx > 0
    THEN LET key == SubSeq(line, 1, idx)
             value == SubSeq(line, idx + 2, Len(line))
         IN [k \in DOMAIN env \cup {key} |->
                IF k = key THEN value ELSE env[k]]
    ELSE env

RECURSIVE ParseEnv(_, _)
ParseEnv(env, lines) ==
    IF lines = <<>> THEN env
    ELSE ParseEnv(ParseLine(env, Head(lines)), Tail(lines))

\* Faulty variant: a failure of the shell run is not caught
LoadUserShellEnvNoCatch(run) ==
    IF run.kind = "ok"
    THEN [threw |-> FALSE,
          env |-> ParseEnv(EmptyEnv, SplitLines(<<>>, run.output))]
    ELSE [threw |-> TRUE, env |-> EmptyEnv]

\* loadUserShellEnv(): what it returns, or that it threw
LoadUserShellEnv(run) ==
    IF run.kind = "ok"
    THEN [threw |-> FALSE,
          env |-> ParseEnv(EmptyEnv, SplitLines(<<>>, run.output))]
    ELSE [threw |-> FALSE, env |-> EmptyEnv]         \* catch: return {}

\* { ...a, ...b }
Spread(a, b) ==
    [k \in DOMAIN a \cup DOMAIN b |-> IF k \in DOMAIN b THEN b[k] ELSE a[k]]

\* a.PATH || b.PATH || ''
PathOr(a, b) ==
    IF K_PATH \in DOMAIN a /\ a[K_PATH] # <<>> THEN a[K_PATH]
    ELSE IF K_PATH \in DOMAIN b /\ b[K_PATH] # <<>> THEN b[K_PATH]
    ELSE <<>>

\* String(port)
DigitChars == <<"0", "1", "2", "3", "4", "5", "6", "7", "8", "9">>
RECURSIVE PortString(_)
PortString(n) ==
    IF n < 10 THEN <<DigitChars[n + 1]>>
    ELSE Append(PortString(n \div 10), DigitChars[(n % 10) + 1])

\* The PATH startServer composes
ChildPath(shellPath) ==
    BasePath \o <<":">> \o HomeStr \o <<"/.npm-global/bin:">> \o HomeStr
        \o <<"/.local/bin:">> \o HomeStr \o <<"/.claude/bin:">> \o shellPath

\* The fixed entries of the object literal
Overrides(shellEnv, procEnv, p) ==
    (K_PORT :> PortString(p)) @@ (K_HOSTNAME :> <<"127.0.0.1">>)
        @@ (K_DATA_DIR :> UserDataStr) @@ (K_RUN_AS_NODE :> <<"1">>)
        @@ (K_HOME :> HomeStr)
        @@ (K_PATH :> ChildPath(PathOr(shellEnv, procEnv)))

\* Faulty variant: the parent's environment is spread last
BuildEnvParentLast(shellEnv, procEnv, p) ==
    Spread(Spread(shellEnv, procEnv), Overrides(shellEnv, procEnv, p))

\* const env = { ...userShellEnv, ...process.env, ...userShellEnv, PORT, ... }
BuildEnv(shellEnv, procEnv, p) ==
    Spread(Spread(Spread(shellEnv, procEnv), shellEnv),
           Overrides(shellEnv, procEnv, p))

(* ---- fragments shared by the handlers ---- *)

\* createWindow(p) called by handler h
CreateWindow(h, p) ==
    /\ win' = [win EXCEPT ![h] = "open"]
    /\ winPort' = [winPort EXCEPT ![h] = p]

\* The 'before-quit' handler run while the handle is sp and the signals sent
\* are k, after which the application closes its windows and terminates.
BeforeQuit(sp, k) ==
    /\ LET s == StopHandle(sp, k) IN
           /\ kills' = s.kills
           /\ serverProcess' = s.handle
           /\ lastStop' = s.did
    /\ appPhase' = "quit"
    /\ win' = [h \in Handlers |-> IF win[h] = "open" THEN "closed" ELSE win[h]]

\* The catch block of the handler h, receiving e while the handle is sp.
\* app-ready: showErrorBox, then app.quit() (which emits 'before-quit').
\* 'activate': console.error only.
Catch(h, e, sp) ==
    /\ pc' = [pc EXCEPT ![h] = "failed"]
    /\ err' = [err EXCEPT ![h] = e]
    /\ IF h = ReadyHandler
       THEN /\ dialogShown' = TRUE
            /\ BeforeQuit(sp, kills)
       ELSE /\ serverProcess' = sp
            /\ UNCHANGED <<dialogShown, kills, lastStop, appPhase, win>>

(* ---- app.whenReady().then(...) up to its first await ---- *)
WhenReady ==
    /\ appPhase = "launching"
    /\ pc[ReadyHandler] = "idle"
    /\ appPhase' = "running"
    /\ \E d \in CaptureDurations :
           \* execFileSync blocks the event loop: the timers and sockets of
           \* the handlers that are waiting are served d ms late
           /\ shellRun.kind = "timeout" => d = CaptureTimeout
           /\ elapsed' = [h \in Handlers |->
                              IF pc[h] \in {"probing", "sleeping"}
                              THEN elapsed[h] + d ELSE elapsed[h]]
    /\ LET r == LoadUserShellEnv(shellRun) IN
       IF r.threw
       THEN \* line 250 is outside the try block: the promise rejects
            /\ pc' = [pc EXCEPT ![ReadyHandler] = "failed"]
            /\ err' = [err EXCEPT ![ReadyHandler] =
                           [kind |-> "capture", lines |-> <<>>]]
            /\ UNCHANGED <<userShellEnv, port, serverPort, win, winPort>>
       ELSE /\ userShellEnv' = r.env
            /\ UNCHANGED err
            /\ IF isDev
               THEN /\ port' = [port EXCEPT ![ReadyHandler] = DevPort]
                    /\ serverPort' = DevPort
                    /\ CreateWindow(ReadyHandler, DevPort)
                    /\ pc' = [pc EXCEPT ![ReadyHandler] = "done"]
               ELSE /\ pc' = [pc EXCEPT ![ReadyHandler] = "getPort"]
                    /\ UNCHANGED <<port, serverPort, win, winPort>>
    /\ UNCHANGED <<previewVars, shellRun, processEnv, platform, isDev,
                   serverProcess, serverErrors, lastProbe, childSt, exitCode,
                   kills, lastStop, dialogShown, childEnv>>

(* ---- app.on('activate') up to its first await ---- *)
\* The handler is registered when the module loads, so the event can be
\* delivered before the application is ready; new BrowserWindow throws then.
Activate(h) ==
    /\ appPhase # "quit"
    /\ platform = "darwin"
    /\ h \in ActivateHandlers
    /\ pc[h] = "idle"
    /\ \A g \in ActivateHandlers : g < h => pc[g] # "idle"
    /\ ~AnyWindowOpen                   \* getAllWindows().length === 0
    /\ IF ~isDev /\ serverProcess = Null
       THEN /\ pc' = [pc EXCEPT ![h] = "getPort"]
            /\ UNCHANGED <<win, winPort, err, appPhase, serverProcess, kills,
                           lastStop, dialogShown>>
       ELSE IF appPhase = "launching"
       THEN /\ Catch(h, [kind |-> "window", lines |-> <<>>], serverProcess)
            /\ UNCHANGED winPort
       ELSE /\ CreateWindow(h, IF serverPort # Null THEN serverPort ELSE DevPort)
            /\ pc' = [pc EXCEPT ![h] = "done"]
            /\ UNCHANGED <<err, appPhase, serverProcess, kills, lastStop,
                           dialogShown>>
    /\ UNCHANGED <<previewVars, shellRun, processEnv, childEnv, platform,
                   isDev, serverPort, serverErrors, userShellEnv, port, elapsed,
                   lastProbe, childSt, exitCode>>

(* ---- getPort() resolves with p: startServer(p), then waitForServer(p) ---- *)
(* ---- runs to its first probe; spawnOk = FALSE: spawn throws           ---- *)
GetPortResolve(h, p, spawnOk) ==
    /\ appPhase # "quit"
    /\ pc[h] = "getPort"
    /\ p \in FreshPorts
    /\ port' = [port EXCEPT ![h] = p]
    /\ serverErrors' = <<>>
    /\ IF spawnOk
       THEN /\ childSt' = [childSt EXCEPT ![h] = "alive"]
            /\ childEnv' = [childEnv EXCEPT
                               ![h] = BuildEnv(userShellEnv, processEnv, p)]
            /\ serverProcess' = h
            /\ pc' = [pc EXCEPT ![h] = "probing"]
            /\ UNCHANGED <<appPhase, err, kills, lastStop, win, dialogShown>>
       ELSE /\ Catch(h, [kind |-> "spawn", lines |-> <<>>], serverProcess)
            /\ UNCHANGED <<childSt, childEnv>>
    /\ UNCHANGED <<previewVars, shellRun, processEnv, platform, isDev, serverPort, userShellEnv, elapsed,
                   lastProbe, exitCode, winPort>>

(* ---- getPort() rejects ---- *)
GetPortReject(h) ==
    /\ appPhase # "quit"
    /\ pc[h] = "getPort"
    /\ Catch(h, [kind |-> "port", lines |-> <<>>], serverProcess)
    /\ UNCHANGED <<previewVars, shellRun, processEnv, childEnv, platform, isDev, serverPort, serverErrors, userShellEnv,
                   port, elapsed, lastProbe, childSt, exitCode, winPort>>

(* ---- the outstanding probe of h's waitForServer ends with outcome ---- *)
ProbeResult(h, outcome) ==
    /\ appPhase # "quit"
    /\ pc[h] = "probing"
    /\ outcome \in ProbeOutcomes
    /\ outcome.kind = "response" =>
           \E c \in Handlers : Alive(c) /\ port[c] = port[h]
    /\ lastProbe' = [lastProbe EXCEPT ![h] = outcome]
    /\ elapsed' = [elapsed EXCEPT ![h] = @ + ProbeDuration(outcome)]
    /\ IF IsSuccess(outcome)
       THEN \* waitForServer returns; the handler goes on to createWindow
            /\ serverPort' = port[h]
            /\ IF appPhase = "launching"
               THEN /\ Catch(h, [kind |-> "window", lines |-> <<>>],
                             serverProcess)
                    /\ UNCHANGED winPort
               ELSE /\ CreateWindow(h, port[h])
                    /\ pc' = [pc EXCEPT ![h] = "done"]
                    /\ UNCHANGED <<err, appPhase, serverProcess, kills,
                                   lastStop, dialogShown>>
       ELSE /\ pc' = [pc EXCEPT ![h] = "sleeping"]
            /\ UNCHANGED <<serverPort, win, winPort, err, appPhase,
                           serverProcess, kills, lastStop, dialogShown>>
    /\ UNCHANGED <<previewVars, shellRun, processEnv, childEnv, platform,
                   isDev, serverErrors, userShellEnv, port, childSt,
                   exitCode>>

(* ---- the 200 ms retry timer of h's waitForServer fires ---- *)
SleepDone(h) ==
    /\ appPhase # "quit"
    /\ pc[h] = "sleeping"
    /\ elapsed' = [elapsed EXCEPT ![h] = @ + RetryInterval]
    /\ LET next == LoopHead(elapsed[h] + RetryInterval, serverProcess) IN
       IF next = "probe"
       THEN /\ pc' = [pc EXCEPT ![h] = "probing"]
            /\ UNCHANGED <<appPhase, serverProcess, err, kills, lastStop, win,
                           dialogShown>>
       ELSE Catch(h, PollError(next), serverProcess)
    /\ UNCHANGED <<previewVars, shellRun, processEnv, childEnv, platform, isDev, serverPort, serverErrors, userShellEnv,
                   port, lastProbe, childSt, exitCode, winPort>>

(* ---- the user closes h's window; 'window-all-closed' after the last ---- *)
WindowClose(h) ==
    /\ appPhase = "running"
    /\ win[h] = "open"
    /\ IF \E g \in Handlers \ {h} : win[g] = "open"
       THEN /\ win' = [win EXCEPT ![h] = "closed"]
            /\ UNCHANGED <<appPhase, serverProcess, kills, lastStop>>
       ELSE IF platform # "darwin"
       THEN \* the stop block, then app.quit(), which emits 'before-quit'
            LET s == StopHandle(serverProcess, kills) IN
                BeforeQuit(s.handle, s.kills)
       ELSE /\ win' = [win EXCEPT ![h] = "closed"]
            /\ LET s == StopHandle(serverProcess, kills) IN
                   /\ kills' = s.kills
                   /\ serverProcess' = s.handle
                   /\ lastStop' = s.did
            /\ UNCHANGED appPhase
    /\ UNCHANGED <<previewVars, shellRun, processEnv, childEnv, platform, isDev, serverPort, serverErrors, userShellEnv,
                   pc, port, elapsed, lastProbe, err, childSt, exitCode,
                   winPort, dialogShown>>

(* ---- the user quits the application: 'before-quit' ---- *)
UserQuit ==
    /\ appPhase = "running"
    /\ BeforeQuit(serverProcess, kills)
    /\ UNCHANGED <<previewVars, shellRun, processEnv, childEnv, platform, isDev, serverPort, serverErrors, userShellEnv,
                   pc, port, elapsed, lastProbe, err, childSt, exitCode,
                   winPort, dialogShown>>

(* ---- child c writes to stdout or stderr ---- *)
\* The handlers push every chunk; n bounds the chunks that are explored.
ChildOutputUpTo(c, n) ==
    /\ appPhase # "quit"
    /\ Alive(c)
    /\ Len(serverErrors) < n
    /\ serverErrors' = Append(serverErrors, c)
    /\ UNCHANGED <<previewVars, shellRun, processEnv, childEnv, platform,
                   isDev, appPhase, serverProcess, serverPort, userShellEnv,
                   pc, port, elapsed, lastProbe, err, childSt, exitCode, kills,
                   lastStop, win, winPort, dialogShown>>

ChildOutput(c) == ChildOutputUpTo(c, MaxOutput)

(* ---- child c exits: with a code, or on the signal it was sent ---- *)
ChildExit(c, code) ==
    /\ Alive(c)
    /\ code \in ExitCodes \cup {NullCode}
    /\ code = NullCode => kills[c] > 0
    /\ childSt' = [childSt EXCEPT ![c] = "exited"]
    /\ exitCode' = [exitCode EXCEPT ![c] = code]
    /\ serverProcess' = IF appPhase = "quit" THEN serverProcess ELSE Null
    /\ UNCHANGED <<previewVars, shellRun, processEnv, childEnv, platform, isDev, appPhase, serverPort, serverErrors,
                   userShellEnv, pc, port, elapsed, lastProbe, err, kills, lastStop, win,
                   winPort, dialogShown>>

(* ---- the file-preview route handler ---- *)

\* a JavaScript string used as a condition: null and '' are falsy
Truthy(param) == param.present /\ (param.abs \/ param.segs # <<>>)

\* path.normalize on the segments of an absolute path: "." is dropped, ".."
\* drops the segment before it and stays at the root.
RECURSIVE Normalize(_, _)
Normalize(done, rest) ==
    IF rest = <<>> THEN done
    ELSE LET s == Head(rest) IN
         IF s = "." THEN Normalize(done, Tail(rest))
         ELSE IF s = ".."
         THEN Normalize(IF done = <<>> THEN done
                        ELSE SubSeq(done, 1, Len(done) - 1), Tail(rest))
         ELSE Normalize(Append(done, s), Tail(rest))

\* path.resolve(p): relative to the working directory unless absolute
Resolve(param) ==
    Normalize(<<>>, IF param.abs THEN param.segs ELSE Cwd \o param.segs)

\* isRootPath of @/lib/files, on a resolved path
isRootPath(p) == p = <<>>

\* isPathSafe of @/lib/files, on resolved paths: equal to or below the base
isPathSafe(base, candidate) ==
    /\ Len(base) <= Len(candidate)
    /\ SubSeq(candidate, 1, Len(base)) = base

\* parseInt(chars, 10): an optional sign, then the leading digits
DigitVal(c) ==
    CASE c = "0" -> 0 [] c = "1" -> 1 [] c = "2" -> 2 [] c = "3" -> 3
      [] c = "4" -> 4 [] c = "5" -> 5 [] c = "6" -> 6 [] c = "7" -> 7
      [] c = "8" -> 8 [] c = "9" -> 9 [] OTHER -> -1

RECURSIVE Digits(_, _, _)
Digits(chars, acc, seen) ==
    IF chars = <<>> \/ DigitVal(Head(chars)) < 0
    THEN IF seen THEN Number(acc) ELSE NaN
    ELSE Digits(Tail(chars), 10 * acc + DigitVal(Head(chars)), TRUE)

ParseInt(chars) ==
    IF chars # <<>> /\ Head(chars) = "-"
    THEN LET r == Digits(Tail(chars), 0, FALSE) IN
         IF r.nan THEN NaN ELSE Number(0 - r.val)
    ELSE IF chars # <<>> /\ Head(chars) = "+"
    THEN Digits(Tail(chars), 0, FALSE)
    ELSE Digits(chars, 0, FALSE)

\* Math.min(a, b): NaN when either is NaN
MathMin(a, b) ==
    IF a.nan \/ b.nan THEN NaN
    ELSE IF a.val <= b.val THEN a ELSE b

\* parseInt(searchParams.get('maxLines') || '200', 10)
ParsedMaxLines(param) ==
    ParseInt(IF param.present /\ param.chars # <<>> THEN param.chars
             ELSE DefaultMaxLines)

\* Faulty variant: the root check on the base is missing
SandboxDecisionNoRootCheck(bd, resolvedPath) ==
    IF Truthy(bd)
    THEN IF ~isPathSafe(Resolve(bd), resolvedPath) THEN "outside-project"
         ELSE "ok"
    ELSE IF ~isPathSafe(HomeDir, resolvedPath) THEN "outside-scope"
         ELSE "ok"

\* The sandbox block of GET for the base parameter bd and the resolved path:
\* "ok", or the 403 it returns.
SandboxDecision(bd, resolvedPath) ==
    IF Truthy(bd)
    THEN LET resolvedBase == Resolve(bd) IN
         IF isRootPath(resolvedBase) THEN "root-base"
         ELSE IF ~isPathSafe(resolvedBase, resolvedPath) THEN "outside-project"
         ELSE "ok"
    ELSE IF ~isPathSafe(HomeDir, resolvedPath) THEN "outside-scope"
         ELSE "ok"

\* Faulty variant: readFilePreview is called before the sandbox block is evaluated
GetReadsFirst(fp, bd, ml) ==
    /\ rpc \in {"idle", "responded"}
    /\ req' = [path |-> fp, baseDir |-> bd, maxLines |-> ml]
    /\ IF ~Truthy(fp)
       THEN /\ status' = 400
            /\ rpc' = "responded"
            /\ readCall' = NoRead
       ELSE /\ readCall' = [called |-> TRUE, path |-> Resolve(fp),
                            limit |-> MathMin(ParsedMaxLines(ml),
                                              Number(MaxLinesCap))]
            /\ IF SandboxDecision(bd, Resolve(fp)) # "ok"
               THEN status' = 403 /\ rpc' = "responded"
               ELSE status' = Null /\ rpc' = "reading"
    /\ UNCHANGED mainVars

\* GET(request) up to its response or to its await of readFilePreview
Get(fp, bd, ml) ==
    /\ rpc \in {"idle", "responded"}
    /\ req' = [path |-> fp, baseDir |-> bd, maxLines |-> ml]
    /\ IF ~Truthy(fp)
       THEN /\ status' = 400
            /\ rpc' = "responded"
            /\ readCall' = NoRead
       ELSE IF SandboxDecision(bd, Resolve(fp)) # "ok"
       THEN /\ status' = 403
            /\ rpc' = "responded"
            /\ readCall' = NoRead
       ELSE /\ status' = Null
            /\ rpc' = "reading"
            /\ readCall' = [called |-> TRUE, path |-> Resolve(fp),
                            limit |-> MathMin(ParsedMaxLines(ml),
                                              Number(MaxLinesCap))]
    /\ UNCHANGED mainVars

\* readFilePreview returns (ok) or throws
ReadSettles(ok) ==
    /\ rpc = "reading"
    /\ status' = IF ok THEN 200 ELSE 500
    /\ rpc' = "responded"
    /\ UNCHANGED <<req, readCall>>
    /\ UNCHANGED mainVars

PreviewNext ==
    \/ \E fp \in PathParams : \E bd \in BaseDirParams :
           \E ml \in MaxLinesParams : Get(fp, bd, ml)
    \/ \E ok \in BOOLEAN : ReadSettles(ok)

PreviewSpec == Init /\ [][PreviewNext]_vars

Supervisor ==
    \/ WhenReady
    \/ \E h \in Handlers : \E p \in Ports : \E ok \in BOOLEAN :
           GetPortResolve(h, p, ok)
    \/ \E h \in Handlers : GetPortReject(h)
    \/ \E h \in Handlers : \E o \in ProbeOutcomes : ProbeResult(h, o)
    \/ \E h \in Handlers : SleepDone(h)

Environment ==
    \/ \E h \in ActivateHandlers : Activate(h)
    \/ \E h \in Handlers : WindowClose(h)
    \/ UserQuit
    \/ \E c \in Handlers : ChildOutput(c)
    \/ \E c \in Handlers : \E code \in ExitCodes \cup {NullCode} :
           ChildExit(c, code)

Next == Supervisor \/ Environment

Spec == Init /\ [][Next]_vars

\* A run in which no 'activate' event is delivered (off macOS, every run):
\* the app-ready flow alone, with the user's and the child's events.
Startup ==
    \/ Supervisor
    \/ \E h \in Handlers : WindowClose(h)
    \/ UserQuit
    \/ \E c \in Handlers : ChildOutput(c)
    \/ \E c \in Handlers : \E code \in ExitCodes \cup {NullCode} :
           ChildExit(c, code)

StartupSpec == Init /\ [][Startup]_vars

\* Startup, for every shell run and parent environment.
EnvSpec == EnvInit /\ [][Startup]_vars

\* Startup with a child that writes up to MaxBurst chunks.
BurstStartup ==
    \/ Supervisor
    \/ \E h \in Handlers : WindowClose(h)
    \/ UserQuit
    \/ \E c \in Handlers : ChildOutputUpTo(c, MaxBurst)
    \/ \E c \in Handlers : \E code \in ExitCodes \cup {NullCode} :
           ChildExit(c, code)

BufferSpec == Init /\ [][BurstStartup]_vars

\* The event loop runs every continuation and timer that is due; nothing is
\* assumed of the user or of the child processes.
FairSpec == Spec /\ WF_vars(Supervisor)

(***************************************************************************)
(* The claims                                                              *)
(***************************************************************************)

AliveChildren == {c \in Handlers : Alive(c)}

\* A stop handler ran in this step: 'before-quit' (the application goes to
\* "quit"), or 'window-all-closed' (the last open window was closed).
StopRan ==
    \/ appPhase # "quit" /\ appPhase' = "quit"
    \/ AnyWindowOpen /\ ~AnyWindowOpen'

Is200(outcome) == outcome.kind = "response" /\ outcome.code = 200

\* C1: single-instance invariant: at most one spawned child is alive (spawned
\* and not yet exited) at any time, whatever the interleaving of the
\* app-ready flow with 'activate', 'window-all-closed', 'before-quit' and
\* child 'exit' events.
C1_SingleInstance == Cardinality(AliveChildren) <= 1

\* C2: crash fail-fast: when h's child has exited with a code while h's
\* waitForServer is between probes and its deadline has not passed, the next
\* loop iteration throws the 'Server process exited with code' error,
\* carrying at least one line of the diagnostic buffer when it holds one.
C2_CrashFailFast ==
    [][\A h \in Handlers :
          ( /\ pc[h] = "sleeping"
            /\ childSt[h] = "exited"
            /\ exitCode[h] # NullCode
            /\ elapsed[h] + RetryInterval < WaitTimeout
            /\ pc'[h] # "sleeping" )
          => /\ pc'[h] = "failed"
             /\ err'[h].kind = "crash"
             /\ (serverErrors # <<>> => err'[h].lines # <<>>)]_vars

\* C3: shutdown terminates the child: when 'before-quit' or
\* 'window-all-closed' has run, every child that was spawned and has not
\* exited has been sent a termination signal.
C3_ShutdownSignalsAll ==
    [][StopRan => \A c \in Handlers : Alive(c)' => kills'[c] > 0]_vars

\* C4: stop cancels polling: once a stop handler has signalled the child h
\* is waiting for (so the stop arrived while h's waitForServer was in
\* flight), h's loop ends with the current probe cycle: it starts no further
\* probe.
C4_StopCancelsPolling ==
    [][\A h \in Handlers :
          (kills[h] > 0 /\ pc[h] = "sleeping") => pc'[h] # "probing"]_vars

\* C5: deterministic termination: a child that has been sent the termination
\* signal is eventually not alive, even when it ignores that signal (the
\* supervisor force-kills it after a grace window).
C5_SignalledEventuallyDead ==
    \A c \in Handlers : (kills[c] > 0) ~> ~Alive(c)

\* C6: UI surface only once Ready, at the allocated port: in packaged mode
\* every window was created at a port p that was allocated for a spawned
\* child and on which that child's health probe had returned 200.
C6_WindowOnlyWhenReady ==
    ~isDev =>
        \A h \in Handlers :
            win[h] # "none" =>
                \E c \in Handlers :
                    /\ childSt[c] # "none"
                    /\ port[c] = winPort[h]
                    /\ Is200(lastProbe[c])

\* C7: fatal startup failures never leave a half-started application: every
\* handler whose start failed (port allocation, spawn, crash, timeout) has
\* shown the error dialog and terminated the application.
C7_FailureShowsErrorAndQuits ==
    \A h \in Handlers :
        pc[h] = "failed" => dialogShown /\ appPhase = "quit"

\* h's waitForServer has returned: the handler went on to createWindow, which
\* opened the window or, before the application was ready, threw.
Returned(h) ==
    pc[h] = "done" \/ (pc[h] = "failed" /\ err[h].kind = "window")

\* C8: probe success rule: waitForServer returns successfully exactly when a
\* probe answered with status 200, as soon as it does and however many
\* earlier probes failed; a non-200 status, a connection error or a probe
\* timeout never counts as success.
C8_ProbeSuccessRule ==
    \A h \in Handlers :
        /\ Is200(lastProbe[h]) => Returned(h)
        /\ (Returned(h) /\ lastProbe[h].kind # "none") => Is200(lastProbe[h])
        /\ (lastProbe[h].kind # "none" /\ ~Is200(lastProbe[h]))
               => ~Returned(h) /\ pc[h] \in {"sleeping", "probing", "failed"}

\* C8 witness: a waitForServer that returned on a 200 after a failed probe.
C8_Witness ==
    \E h \in Handlers :
        pc[h] = "done" /\ elapsed[h] >= RetryInterval /\ Is200(lastProbe[h])

\* The three ways the safety check of a request fails.
RootBase(bd) == Truthy(bd) /\ isRootPath(Resolve(bd))
OutsideExplicitBase(bd, rp) == Truthy(bd) /\ ~isPathSafe(Resolve(bd), rp)
OutsideHome(bd, rp) == ~Truthy(bd) /\ ~isPathSafe(HomeDir, rp)
CheckFails(bd, rp) ==
    RootBase(bd) \/ OutsideExplicitBase(bd, rp) \/ OutsideHome(bd, rp)

\* GET got past its 400: the request names a path.
Handled == rpc # "idle" /\ Truthy(req.path)

\* C9: guard strictly before read: readFilePreview is called only with the
\* resolved path of a request whose safety check did not fail; a request
\* whose check fails (root base, outside the explicit base, outside home
\* without a base) is answered 403 and no read is made for it.
C9_GuardBeforeRead ==
    LET rp == Resolve(req.path) IN
    /\ readCall.called =>
           /\ Handled
           /\ readCall.path = rp
           /\ ~CheckFails(req.baseDir, rp)
    /\ (Handled /\ CheckFails(req.baseDir, rp)) =>
           status = 403 /\ ~readCall.called

\* C9 witness: a path with ".." that resolves outside its (non-root) base was
\* refused with 403 and without a read.
C9_Witness ==
    /\ Handled
    /\ ".." \in {req.path.segs[i] : i \in 1..Len(req.path.segs)}
    /\ OutsideExplicitBase(req.baseDir, Resolve(req.path))
    /\ ~RootBase(req.baseDir)
    /\ status = 403
    /\ ~readCall.called

\* The reference decision: with an explicit (non-empty) base, deny a root
\* base outright and otherwise allow what isPathSafe allows below the base;
\* without one, allow what isPathSafe allows below the home directory.
ReferenceAllows(bd, rp) ==
    IF Truthy(bd)
    THEN IF isRootPath(Resolve(bd)) THEN FALSE
         ELSE isPathSafe(Resolve(bd), rp)
    ELSE isPathSafe(HomeDir, rp)

\* C10: sandbox policy composition: for every (baseDir, path) request the
\* handler allows the read (no 403) exactly when the reference decision
\* allows it.
C10_PolicyComposition ==
    Handled =>
        ((status # 403) <=> ReferenceAllows(req.baseDir, Resolve(req.path)))

\* C10 witness: a root base given as "/home/.." was refused although the
\* path lies inside it (and inside the home directory).
C10_Witness ==
    /\ Handled
    /\ req.baseDir.segs # <<>>
    /\ RootBase(req.baseDir)
    /\ isPathSafe(Resolve(req.baseDir), Resolve(req.path))
    /\ isPathSafe(HomeDir, Resolve(req.path))
    /\ status = 403

\* C11: maximum-lines clamp: whatever the maxLines parameter (absent, above
\* 1000, zero, negative, not a number), the limit readFilePreview is called
\* with is a number that is at most 1000.
C11_LimitAtMostCap ==
    readCall.called => ~readCall.limit.nan /\ readCall.limit.val <= 1000

(* ---- C12 ---- *)

Spawned(c) == childSt[c] # "none"

\* The value the precedence rule gives the name k in child c's environment
PrecedenceValue(c, k) ==
    IF k = K_PORT THEN PortString(port[c])
    ELSE IF k = K_HOSTNAME THEN <<"127.0.0.1">>
    ELSE IF k = K_DATA_DIR THEN UserDataStr
    ELSE IF k = K_RUN_AS_NODE THEN <<"1">>
    ELSE IF k = K_HOME THEN HomeStr
    ELSE IF k = K_PATH THEN ChildPath(PathOr(userShellEnv, processEnv))
    ELSE IF k \in DOMAIN userShellEnv THEN userShellEnv[k]
    ELSE processEnv[k]

PrecedenceHolds ==
    \A c \in Handlers :
        Spawned(c) =>
            /\ DOMAIN childEnv[c] =
                   FixedKeys \cup DOMAIN userShellEnv \cup DOMAIN processEnv
            /\ \A k \in DOMAIN childEnv[c] :
                   childEnv[c][k] = PrecedenceValue(c, k)

SpawnStep == \E c \in Handlers : ~Spawned(c) /\ Spawned(c)'

\* C12: environment merge precedence: in a spawned child's environment a
\* fixed-override key has the fixed value, any other name has the captured
\* shell value when the snapshot defines it and the parent's value otherwise;
\* the step that builds the environment leaves the snapshot as it was.
C12_MergePrecedence ==
    /\ []PrecedenceHolds
    /\ [][SpawnStep => userShellEnv' = userShellEnv]_vars

\* A child is running whose API_KEY is defined by the snapshot and,
\* differently, by the parent: it has the snapshot's value.
C12_Witness ==
    \E c \in Handlers :
        /\ childSt[c] = "alive"
        /\ K_API \in DOMAIN userShellEnv \cap DOMAIN processEnv
        /\ userShellEnv[K_API] # processEnv[K_API]
        /\ childEnv[c][K_API] = userShellEnv[K_API]

(* ---- C13 ---- *)

CaptureFailed == shellRun.kind # "ok"

ReadyStep == appPhase = "launching" /\ appPhase' = "running"

\* C13: environment capture is non-fatal: no handler ever fails with an error
\* raised by loadUserShellEnv; when the shell cannot be spawned, exits
\* non-zero or times out the snapshot is the empty mapping; and the ready
\* handler of a packaged build goes on to port allocation.
C13_CaptureNonFatal ==
    /\ [](\A h \in Handlers : err[h].kind # "capture")
    /\ [](appPhase = "running" /\ CaptureFailed => userShellEnv = EmptyEnv)
    /\ [][ReadyStep /\ ~isDev => pc'[ReadyHandler] = "getPort"]_vars

\* The shell run timed out, the snapshot is empty, and the child was started.
C13_Witness ==
    /\ shellRun.kind = "timeout"
    /\ shellRun.output # <<>>
    /\ userShellEnv = EmptyEnv
    /\ childSt[ReadyHandler] = "alive"

(* ---- C14 ---- *)

CapturedLines == SplitLines(<<>>, shellRun.output)

HasEq(l) == \E i \in 1..Len(l) : l[i] = EQ

FirstEq(l) ==
    CHOOSE i \in 1..Len(l) : l[i] = EQ /\ \A j \in 1..(i - 1) : l[j] # EQ

\* The lines that add an entry: they have a '=' and it is not their start
EntryLines ==
    {i \in 1..Len(CapturedLines) :
        HasEq(CapturedLines[i]) /\ FirstEq(CapturedLines[i]) > 1}

KeyOf(l) == SubSeq(l, 1, FirstEq(l) - 1)
ValueOf(l) == SubSeq(l, FirstEq(l) + 1, Len(l))

\* C14: environment line parsing: after a successful capture the snapshot's
\* names are exactly the texts before the first '=' of the lines that have a
\* '=' not at their start, and each name's value is the whole remainder after
\* that first '=' of the last line carrying the name; other lines add nothing.
C14_SplitOnFirstEq ==
    appPhase = "running" /\ shellRun.kind = "ok" =>
        /\ DOMAIN userShellEnv = {KeyOf(CapturedLines[i]) : i \in EntryLines}
        /\ \A i \in EntryLines :
               (\A j \in EntryLines :
                    j > i => KeyOf(CapturedLines[j]) # KeyOf(CapturedLines[i]))
               => userShellEnv[KeyOf(CapturedLines[i])]
                      = ValueOf(CapturedLines[i])

\* The captured output had TOKEN=a=b, a line without '=' and a line starting
\* with '=': the snapshot has TOKEN with value a=b and no entry for the others.
C14_Witness ==
    /\ appPhase = "running"
    /\ <<"TOKEN">> \in DOMAIN userShellEnv
    /\ userShellEnv[<<"TOKEN">>] = <<"a", EQ, "b">>
    /\ DOMAIN userShellEnv = {<<"TOKEN">>, <<"EMPTY">>}
    /\ \E i \in 1..Len(CapturedLines) : CapturedLines[i] = <<"noequals">>
    /\ \E i \in 1..Len(CapturedLines) : CapturedLines[i] = <<EQ, "orphan">>

(* ---- C15 ---- *)

\* A stop handler ran in this step on a user's event (closing the last
\* window, quitting), not at the end of a failed startup.
StopEvent == StopRan /\ pc' = pc

\* C15: stop is idempotent: a step in which a stop handler runs on a user's
\* event while the handle is already cleared sends no signal and leaves the
\* handle, the port and the buffer as they were; after any step in which a
\* stop handler runs the handle is cleared, so a second run is such a step;
\* and no child is ever sent the termination signal more than once.
C15_StopIdempotent ==
    /\ [](\A c \in Handlers : kills[c] <= 1)
    /\ [][StopRan => serverProcess' = Null]_vars
    /\ [][StopEvent /\ serverProcess = Null =>
              /\ kills' = kills
              /\ serverPort' = serverPort
              /\ serverErrors' = serverErrors
              /\ lastStop' = "nothing"]_vars

\* The child was sent the signal by one run of a stop handler, and the last
\* run of a stop handler, a later one, sent nothing.
C15_Witness ==
    /\ lastStop = "nothing"
    /\ kills[ReadyHandler] = 1
    /\ appPhase = "quit"
    /\ serverProcess = Null

(* ---- C16 ---- *)

\* C16: capture before start: while the application has not yet run
\* loadUserShellEnv (it is still launching), no handler has called getPort or
\* startServer, so no child has been spawned with an environment built from
\* the initial empty snapshot.
C16_CaptureBeforeStart ==
    appPhase = "launching" =>
        \A h \in Handlers : pc[h] = "idle" /\ ~Spawned(h)

(* ---- C17 ---- *)

\* C17: bounded diagnostic buffer: the buffer never holds more than the last
\* 10 lines, and no error thrown by waitForServer carries more than 10.
C17_BufferBounded ==
    /\ Len(serverErrors) <= ErrTail
    /\ \A h \in Handlers : Len(err[h].lines) <= ErrTail

(* ---- C18 ---- *)

\* h's waitForServer call is in progress: a probe is outstanding or the
\* retry timer is running.
Polling(h) == pc[h] \in {"probing", "sleeping"}

\* C18: the poller terminates within its budget: no waitForServer call is
\* still running later than its deadline plus one probe timeout plus one
\* retry interval after its start, and every call in progress eventually
\* returns or throws (unless the application quits first).
C18_PollerWithinBudget ==
    /\ [](\A h \in Handlers :
              elapsed[h] <= WaitTimeout + ProbeTimeout + RetryInterval)
    /\ \A h \in Handlers : Polling(h) ~> (~Polling(h) \/ appPhase = "quit")

(* ---- C19 ---- *)

\* C19: the exit handler affects only its own handle: when a child that was
\* stopped exits while the handle refers to another, later child, the handle
\* is left as it is.
C19_ExitClearsOwnHandleOnly ==
    [][\A c \in Handlers :
          ( /\ Alive(c) /\ ~Alive(c)'
            /\ kills[c] > 0
            /\ appPhase # "quit"
            /\ serverProcess # Null
            /\ serverProcess # c )
          => serverProcess' = serverProcess]_vars

(* ---- C20 ---- *)

\* C20: diagnostic buffer isolation: while the handle refers to a child, the
\* buffer holds no line written by another child that was stopped before,
\* and an error thrown by a handler's waitForServer carries only lines of
\* that handler's child.
C20_BufferIsolation ==
    /\ serverProcess # Null =>
           \A i \in 1..Len(serverErrors) :
               serverErrors[i] = serverProcess \/ kills[serverErrors[i]] = 0
    /\ \A h \in Handlers :
           \A i \in 1..Len(err[h].lines) : err[h].lines[i] = h

====
